---------------------------- MODULE Spec2Model ----------------------------
(***************************************************************************)
(* Paginated fetch-and-aggregate engine of the marketplace parser         *)
(* (WBParser.search_products and WBParser.get_products_by_supplier_id)    *)
(* together with the cache-aside read and write around it.                *)
(*                                                                         *)
(* One invocation is a main coroutine plus one task per page of the       *)
(* current batch.  Every action is the code that runs between two await   *)
(* points of one coroutine.  Ratings are kept in tenths (45 = 4.5).       *)
(***************************************************************************)
EXTENDS Naturals, Integers, Sequences, FiniteSets, TLC

VARIABLES
    mode,          \* "search" (search_products) or "supplier" (get_products_by_supplier_id)
    pages,         \* the pages argument of the invocation
    content,       \* upstream: content[p] = the records page p decodes to (<<>> = empty page)
    fails,         \* upstream: the first fails[p] requests of one invocation for page p fail
    cache,         \* the cache entry under the query's key
    pc,            \* await point of the main coroutine
    batch_start,   \* loop variable of the batch loop
    task,          \* task[p]: state of the task created for page p
    attempt,       \* attempt[p]: upstream requests issued for page p in this invocation
    result,        \* result[p]: value returned by the finished task of page p
    all_products,  \* the accumulator
    ret,           \* value returned by the invocation
    run,           \* number of the invocation (1 = first run, 2 = re-run)
    prev_ret,      \* value returned by the previous invocation
    warm,          \* the cache held an entry for the key when this invocation read it
    out_of_order,  \* a task finished, or a result was consumed, before that of a lower page
    call,          \* the operation or function invoked outside the orchestrator, with its arguments
    outcome,       \* how that call ended: pending, returned (with its value) or raised (with the exception)
    requests,      \* upstream requests issued by that call
    store_fault    \* the commands (get, delete, setex) the cache store answers with a RedisError

\* the variables of a call outside the orchestrator
call_vars == <<call, outcome, requests, store_fault>>

\* the variables of the orchestrator
engine_vars == <<mode, pages, content, fails, pc, batch_start, task, attempt,
                 result, all_products, ret, run, prev_ret, warm, out_of_order>>

vars == <<mode, pages, content, fails, cache, pc, batch_start, task, attempt,
          result, all_products, ret, run, prev_ret, warm, out_of_order,
          call, outcome, requests, store_fault>>

---------------------------------------------------------------------------
(* Bounds of the model *)

MaxPages == 3        \* largest pages argument of the small inputs
MaxBatchPages == 11  \* largest pages argument of the multi-batch inputs
MaxSpecial == 1      \* multi-batch inputs: the empty / failing page is among the first MaxSpecial
MaxFailPage == 2     \* small inputs: the failing page is among the first MaxFailPage
MaxFairPages == 2    \* largest pages argument of the inputs of the fair specification
MaxRuns == 2         \* invocations of the same query in a row
MaxIds == 2          \* product identities in the records of a call outside the orchestrator
MaxRecords == 2      \* longest list handed to the cache in a round trip
MaxCatalog == 8      \* identities in the upstream catalogue of the comparator's inputs
MaxFound == 3        \* most products one search returns to the comparator
MaxItems == 2        \* most items in an upstream response handed to the decoder
MaxFeedbackPages == 2 \* feedback pages of the upstream given one by one
MaxPrices == 3       \* most products the search hands to the price range
MaxChars == 2        \* longest string argument of a cache key

(* Program constants *)

SettingsMaxPages == 10000   \* Settings.max_pages
BatchStep == 10             \* step of range(1, max_pages + 1, 10)
BatchSpan == 9              \* batch_end = min(batch_start + 9, max_pages + 1)
SearchSemaphore == 10       \* asyncio.Semaphore(10)
SupplierSemaphore == 5      \* asyncio.Semaphore(5)
Retries == 30               \* retries = 30

Modes == {"search", "supplier"}

Min(a, b) == IF a < b THEN a ELSE b

---------------------------------------------------------------------------
(* Upstream data *)

Rating(i) == 30 + ((i * 7) % 4) * 5

Item(i) == [id |-> i, rating |-> Rating(i)]

\* the records of page p when every page holds n records
PageOf(p, n) == [k \in 1..n |-> Item((p - 1) * n + k)]

---------------------------------------------------------------------------
(* Cache gateway: CacheService.get / CacheService.set *)

NoEntry == [present |-> FALSE, data |-> <<>>]

\* product.dict() followed by json.dumps: one JSON object per product
json_dumps(value) == [i \in 1..Len(value) |-> <<"id", value[i].id, "rating", value[i].rating>>]

\* json.loads followed by Product(**item)
json_loads(data) == [i \in 1..Len(data) |-> [id |-> data[i][2], rating |-> data[i][4]]]

\* CacheService.get: None on a missing key, the decoded list otherwise
cache_get == IF cache.present
             THEN [none |-> FALSE, value |-> json_loads(cache.data)]
             ELSE [none |-> TRUE, value |-> <<>>]

\* CacheService.set
cache_set(value) == [present |-> TRUE, data |-> json_dumps(value)]

\* "if cached_products:" - None and the empty list are both falsy
Truthy(cached) == ~cached.none /\ cached.value # <<>>

---------------------------------------------------------------------------
(* sorted(all_products, key=lambda x: x.rating, reverse=True): a stable   *)
(* sort, built by inserting the elements one by one from left to right    *)

\* x goes to the front, whatever it rates
InsertFront(s, x) == <<x>> \o s

\* x goes behind the elements of the descending sequence s that rate >= x
InsertDesc(s, x) ==
    LET k == Cardinality({i \in 1..Len(s) : s[i].rating >= x.rating})
    IN  SubSeq(s, 1, k) \o <<x>> \o SubSeq(s, k + 1, Len(s))

\* the same without reverse=True: x goes behind the elements that rate <= x
InsertAsc(s, x) ==
    LET k == Cardinality({i \in 1..Len(s) : s[i].rating <= x.rating})
    IN  SubSeq(s, 1, k) \o <<x>> \o SubSeq(s, k + 1, Len(s))

\* the first n elements of s, sorted (t is bound to the sorted prefix)
RECURSIVE SortPrefixAsc(_, _)
SortPrefixAsc(s, n) ==
    IF n = 0 THEN <<>>
    ELSE CHOOSE u \in {InsertAsc(t, s[n]) : t \in {SortPrefixAsc(s, n - 1)}} : TRUE

RECURSIVE SortPrefix(_, _)
SortPrefix(s, n) ==
    IF n = 0 THEN <<>>
    ELSE CHOOSE u \in {InsertDesc(t, s[n]) : t \in {SortPrefix(s, n - 1)}} : TRUE

sorted_ascending(s) == SortPrefixAsc(s, Len(s))

sorted(s) == SortPrefix(s, Len(s))

---------------------------------------------------------------------------
(* Batch arithmetic of the orchestrator loop *)

max_pages == Min(pages, SettingsMaxPages)

\* batch_start + 9, whatever max_pages
batch_end_unclamped(bs) == bs + BatchSpan
\* min(batch_start + 9, max_pages + 1)
batch_end(bs) == Min(bs + BatchSpan, max_pages + 1)

\* range(batch_start, batch_end)
BatchPages(bs) == bs..(batch_end(bs) - 1)

Semaphore == IF mode = "search" THEN SearchSemaphore ELSE SupplierSemaphore

\* tasks inside "async with semaphore"
InFlight == {p \in DOMAIN task : task[p] \in {"run", "backoff"}}

Completed == {p \in BatchPages(batch_start) : task[p] = "done"}

Pending == {p \in BatchPages(batch_start) : task[p] # "done"}

\* first page of the upstream that is empty, 0 when there is none
FirstEmpty ==
    IF \E p \in DOMAIN content : content[p] = <<>>
    THEN CHOOSE p \in DOMAIN content :
             content[p] = <<>> /\ \A q \in DOMAIN content : content[q] = <<>> => p <= q
    ELSE 0

\* _fetch_page / _fetch_supplier_page: request number a for page p
fetch_page(p, a) ==
    IF a <= fails[p]
    THEN [error |-> TRUE, products |-> <<>>]
    ELSE [error |-> FALSE, products |-> content[p]]

---------------------------------------------------------------------------
(* Initial states: one invocation is about to start on a cold cache *)

NoTasks == [p \in 1..pages |-> "none"]

\* no call outside the orchestrator is under way
NoCall ==
    /\ call = [fn |-> "none"]
    /\ outcome = [state |-> "none"]
    /\ requests = 0
    /\ store_fault = {}

InitRun ==
    /\ cache = NoEntry
    /\ pc = "start"
    /\ batch_start = 0
    /\ task = NoTasks
    /\ attempt = [p \in 1..pages |-> 0]
    /\ result = [p \in 1..pages |-> <<>>]
    /\ all_products = <<>>
    /\ ret = <<>>
    /\ run = 1
    /\ prev_ret = <<>>
    /\ warm = FALSE
    /\ out_of_order = FALSE
    /\ NoCall

\* numbers of leading failures tried for the failing page
FailCounts == {1, Retries - 1, Retries}

\* small inputs: up to maxp pages of two records, any of them empty, and at
\* most one failing page, among the first MaxFailPage, failing c times for
\* a c in counts
InitSmall(maxp, counts) ==
    /\ mode \in Modes
    /\ pages \in 0..maxp
    /\ \E E \in SUBSET (1..pages) :
           content = [p \in 1..pages |-> IF p \in E THEN <<>> ELSE PageOf(p, 2)]
    /\ \E f \in 0..MaxFailPage : \E c \in counts :
           fails = [p \in 1..pages |-> IF p = f THEN c ELSE 0]
    /\ InitRun

\* the end-to-end scenario: search over 2 pages, 20 products on page 1, page 2 empty
InitScenario ==
    /\ mode = "search"
    /\ pages = 2
    /\ content = <<PageOf(1, 20), <<>>>>
    /\ fails = <<0, 0>>
    /\ InitRun

Init == InitSmall(MaxPages, FailCounts) \/ InitScenario

\* inputs of the fair specification
InitFair == InitSmall(MaxFairPages, {1, Retries})

\* multi-batch inputs: every page holds the same record, but for at most one
\* empty page and at most one page that fails once
InitBatch ==
    /\ mode \in Modes
    /\ pages \in BatchStep..MaxBatchPages
    /\ \E e \in 0..MaxSpecial :
           content = [p \in 1..pages |-> IF p = e THEN <<>> ELSE PageOf(1, 1)]
    /\ \E f \in 0..MaxSpecial :
           fails = [p \in 1..pages |-> IF p = f THEN 1 ELSE 0]
    /\ InitRun

---------------------------------------------------------------------------
(* Main coroutine *)

\* top of the batch loop with batch_start = bs, or the code after the loop
StartBatchOrFinish(bs, acc) ==
    IF bs <= max_pages
    THEN /\ batch_start' = bs
         /\ task' = [p \in DOMAIN task |-> IF p \in BatchPages(bs) THEN "sem" ELSE task[p]]
         /\ all_products' = acc
         /\ pc' = "wait"
         /\ UNCHANGED <<cache, ret>>
    ELSE /\ ret' = sorted(acc)
         /\ cache' = cache_set(sorted(acc))
         /\ all_products' = acc
         /\ pc' = "done"
         /\ UNCHANGED <<batch_start, task>>

\* cache lookup; on a hit return, on a miss create the first batch
Begin ==
    /\ pc = "start"
    /\ warm' = cache.present
    /\ IF Truthy(cache_get)
       THEN /\ ret' = cache_get.value
            /\ pc' = "done"
            /\ UNCHANGED <<cache, batch_start, task, all_products>>
       ELSE StartBatchOrFinish(1, <<>>)
    /\ UNCHANGED <<mode, pages, content, fails, attempt, result, run, prev_ret, out_of_order>>
    /\ UNCHANGED call_vars

\* the orders in which "for task in completed" can visit the results of the
\* tasks in S (iteration order of a set of tasks), as sequences of results
RECURSIVE Orders(_)
Orders(S) ==
    IF S = {} THEN {<<>>}
    ELSE UNION { LET p == CHOOSE q \in S : result[q] = r
                 IN  {<<r>> \o t : t \in Orders(S \ {p})}
                 : r \in {result[q] : q \in S} }

\* the loop body over the results in the given order: stops at the first
\* empty result, extends the accumulator with every other one
RECURSIVE Consume(_, _)
Consume(order, acc) ==
    IF order = <<>> THEN [empty |-> FALSE, acc |-> acc]
    ELSE IF Head(order) = <<>> THEN [empty |-> TRUE, acc |-> acc]
    ELSE Consume(Tail(order), acc \o Head(order))

\* the results of the tasks in S in ascending page order
RECURSIVE InPageOrder(_)
InPageOrder(S) ==
    IF S = {} THEN <<>>
    ELSE LET m == CHOOSE q \in S : \A x \in S : q <= x
         IN  <<result[m]>> \o InPageOrder(S \ {m})

\* asyncio.wait(tasks, FIRST_COMPLETED) returns; the completed tasks are
\* processed; pending ones are cancelled (empty result seen) or awaited
WaitReturns ==
    /\ pc = "wait"
    /\ Completed # {}
    /\ \E order \in Orders(Completed) :
         LET r == Consume(order, all_products) IN
         /\ out_of_order' = (out_of_order \/ order # InPageOrder(Completed))
         /\ IF r.empty
            THEN /\ all_products' = r.acc
                 /\ pc' = "cancel"
                 /\ UNCHANGED <<cache, ret, batch_start, task>>
            ELSE IF Pending # {}
            THEN /\ all_products' = r.acc
                 /\ pc' = "gather"
                 /\ UNCHANGED <<cache, ret, batch_start, task>>
            ELSE StartBatchOrFinish(batch_start + BatchStep, r.acc)
    /\ UNCHANGED <<mode, pages, content, fails, attempt, result, run, prev_ret, warm>>
    /\ UNCHANGED call_vars

\* gather(*pending, return_exceptions=True) is complete for the tasks in S
SettledNoWait(S) == TRUE
SettledOnlyDone(S) == \A p \in S : task[p] = "done"
Settled(S) == \A p \in S : task[p] \in {"done", "cancelled"}

\* the gather at the end of a batch returns: its results are dropped
GatherReturns ==
    /\ pc = "gather"
    /\ Settled(BatchPages(batch_start))
    /\ StartBatchOrFinish(batch_start + BatchStep, all_products)
    /\ UNCHANGED <<mode, pages, content, fails, attempt, result, run, prev_ret, warm, out_of_order>>
    /\ UNCHANGED call_vars

\* the gather after the cancellation returns: sort, cache, return
CancelGatherReturns ==
    /\ pc = "cancel"
    /\ Settled(BatchPages(batch_start))
    /\ ret' = sorted(all_products)
    /\ cache' = cache_set(sorted(all_products))
    /\ pc' = "done"
    /\ UNCHANGED <<mode, pages, content, fails, batch_start, task, attempt, result,
                   all_products, run, prev_ret, warm, out_of_order>>
    /\ UNCHANGED call_vars

---------------------------------------------------------------------------
(* Page tasks: fetch_page_with_semaphore *)

SemaphoreFreeUnbounded == TRUE
SemaphoreFree == Cardinality(InFlight) < Semaphore

\* "async with semaphore" is entered (waiters are served first come, first
\* served, tasks start in creation order) and the first request is issued
Acquire(p) ==
    /\ pc # "cancel"
    /\ task[p] = "sem"
    /\ \A q \in DOMAIN task : task[q] = "sem" => p <= q
    /\ SemaphoreFree
    /\ task' = [task EXCEPT ![p] = "run"]
    /\ attempt' = [attempt EXCEPT ![p] = 1]
    /\ UNCHANGED <<mode, pages, content, fails, cache, pc, batch_start, result,
                   all_products, ret, run, prev_ret, warm, out_of_order>>
    /\ UNCHANGED call_vars

\* a task finishes with value v
TaskReturns(p, v) ==
    /\ task' = [task EXCEPT ![p] = "done"]
    /\ result' = [result EXCEPT ![p] = v]
    /\ out_of_order' = (out_of_order \/ \E q \in DOMAIN task :
                           q < p /\ task[q] \in {"sem", "run", "backoff"})

\* search mode: the request resolves; a ParserError becomes []
SearchResolve(p) ==
    /\ mode = "search"
    /\ pc # "cancel"
    /\ task[p] = "run"
    /\ LET out == fetch_page(p, attempt[p]) IN
         TaskReturns(p, IF out.error THEN <<>> ELSE out.products)
    /\ UNCHANGED <<mode, pages, content, fails, cache, pc, batch_start, attempt,
                   all_products, ret, run, prev_ret, warm>>
    /\ UNCHANGED call_vars

\* "if attempt < retries - 1" with attempt = a - 1: another attempt follows
MayRetryShort(a) == a < Retries - 1
MayRetry(a) == a < Retries

\* supplier mode: the request resolves; success returns the products after
\* the pacing delay, a ParserError leads to the back-off or, after the last
\* attempt, to []
SupplierResolve(p) ==
    /\ mode = "supplier"
    /\ pc # "cancel"
    /\ task[p] = "run"
    /\ LET out == fetch_page(p, attempt[p]) IN
         IF ~out.error THEN TaskReturns(p, out.products)
         ELSE IF MayRetry(attempt[p])
         THEN /\ task' = [task EXCEPT ![p] = "backoff"]
              /\ UNCHANGED <<result, out_of_order>>
         ELSE TaskReturns(p, <<>>)
    /\ UNCHANGED <<mode, pages, content, fails, cache, pc, batch_start, attempt,
                   all_products, ret, run, prev_ret, warm>>
    /\ UNCHANGED call_vars

\* supplier mode: the back-off sleep ends and the next request is issued
Retry(p) ==
    /\ pc # "cancel"
    /\ task[p] = "backoff"
    /\ task' = [task EXCEPT ![p] = "run"]
    /\ attempt' = [attempt EXCEPT ![p] = attempt[p] + 1]
    /\ UNCHANGED <<mode, pages, content, fails, cache, pc, batch_start, result,
                   all_products, ret, run, prev_ret, warm, out_of_order>>
    /\ UNCHANGED call_vars

\* a pending task that was cancelled unwinds with CancelledError; the
\* unwinding tasks do not interact and are taken in page order
TaskCancelled(p) ==
    /\ pc = "cancel"
    /\ task[p] \in {"sem", "run", "backoff"}
    /\ \A q \in DOMAIN task : task[q] \in {"sem", "run", "backoff"} => p <= q
    /\ task' = [task EXCEPT ![p] = "cancelled"]
    /\ UNCHANGED <<mode, pages, content, fails, cache, pc, batch_start, attempt, result,
                   all_products, ret, run, prev_ret, warm, out_of_order>>
    /\ UNCHANGED call_vars

---------------------------------------------------------------------------
(* Environment *)

\* the same query is issued again after the previous invocation returned
Rerun ==
    /\ pc = "done"
    /\ run < MaxRuns
    /\ run' = run + 1
    /\ prev_ret' = ret
    /\ pc' = "start"
    /\ batch_start' = 0
    /\ task' = NoTasks
    /\ attempt' = [p \in 1..pages |-> 0]
    /\ result' = [p \in 1..pages |-> <<>>]
    /\ all_products' = <<>>
    /\ ret' = <<>>
    /\ warm' = FALSE
    /\ out_of_order' = FALSE
    /\ UNCHANGED <<mode, pages, content, fails, cache>>
    /\ UNCHANGED call_vars

Next ==
    \/ Begin
    \/ WaitReturns
    \/ GatherReturns
    \/ CancelGatherReturns
    \/ \E p \in DOMAIN task : Acquire(p)
    \/ \E p \in DOMAIN task : SearchResolve(p)
    \/ \E p \in DOMAIN task : SupplierResolve(p)
    \/ \E p \in DOMAIN task : Retry(p)
    \/ \E p \in DOMAIN task : TaskCancelled(p)
    \/ Rerun

\* the steps of the program itself (all but the client's re-run)
Program ==
    \/ Begin
    \/ WaitReturns
    \/ GatherReturns
    \/ CancelGatherReturns
    \/ \E p \in DOMAIN task : Acquire(p)
    \/ \E p \in DOMAIN task : SearchResolve(p)
    \/ \E p \in DOMAIN task : SupplierResolve(p)
    \/ \E p \in DOMAIN task : Retry(p)
    \/ \E p \in DOMAIN task : TaskCancelled(p)

Spec == Init /\ [][Next]_vars

SpecBatch == InitBatch /\ [][Next]_vars

\* the event loop runs a coroutine that can run, and a request resolves
FairSpec == InitFair /\ [][Next]_vars /\ WF_vars(Program)

---------------------------------------------------------------------------
(* Calls outside the orchestrator start from an idle orchestrator *)

EngineIdle ==
    /\ mode = "none"
    /\ pages = 0
    /\ content = <<>>
    /\ fails = <<>>
    /\ pc = "idle"
    /\ batch_start = 0
    /\ task = <<>>
    /\ attempt = <<>>
    /\ result = <<>>
    /\ all_products = <<>>
    /\ ret = <<>>
    /\ run = 0
    /\ prev_ret = <<>>
    /\ warm = FALSE
    /\ out_of_order = FALSE

---------------------------------------------------------------------------
(* CacheService with whole records: a record carries its class in kind    *)
(* and its fields by name; root = 0 stands for a record without root      *)

ProductIds == 1..MaxIds
FeedbackIds == {"f1", "f2"}

Products == [kind : {"Product"}, id : ProductIds, name : {"n"}, price : {100},
             rating : {40, 45}, link : {"l"}, feedbacks : {0}, subjectId : {1},
             root : {0, 7}]

Feedbacks == [kind : {"Feedback"}, id : FeedbackIds, text : {"t"}, pros : {""},
              cons : {""}, rating : {5}, created_date : {[datetime |-> 1]},
              user_name : {"", "u"}, product_nm : {7}]

\* fields a Product cannot be built without (those declared without default)
ProductRequired == {"id", "name", "price", "link"}

\* json.dumps(..., default=str) of the value v of field f: a datetime (the
\* created_date of a Feedback) becomes its text
json_default(f, v) == IF f = "created_date" THEN <<"str", v.datetime>> ELSE v

\* record.dict() followed by json.dumps: the JSON object holds the fields
\* by name and no longer the class
dict_dumps(rec) == [f \in DOMAIN rec \ {"kind"} |-> json_default(f, rec[f])]

dumps(value) == [i \in 1..Len(value) |-> dict_dumps(value[i])]

\* Product(**item): raises when a required field is missing, ignores the
\* fields Product does not declare, fills in the defaults
ProductOf(item) ==
    IF ~(ProductRequired \subseteq DOMAIN item)
    THEN [raised |-> TRUE]
    ELSE [raised |-> FALSE,
          value |-> [kind |-> "Product", id |-> item["id"], name |-> item["name"],
                     price |-> item["price"],
                     rating |-> IF "rating" \in DOMAIN item THEN item["rating"] ELSE 0,
                     link |-> item["link"],
                     feedbacks |-> IF "feedbacks" \in DOMAIN item THEN item["feedbacks"] ELSE 0,
                     subjectId |-> IF "subjectId" \in DOMAIN item THEN item["subjectId"] ELSE 0,
                     root |-> IF "root" \in DOMAIN item THEN item["root"] ELSE 0]]

\* CacheService.get on the entry: None on a store error, on a missing key
\* and on any exception of the decoding; else [Product(**item) for item in data]
CacheService_get(entry, fault) ==
    IF fault \/ ~entry.present THEN [none |-> TRUE, value |-> <<>>]
    ELSE IF \E i \in 1..Len(entry.data) : ProductOf(entry.data[i]).raised
    THEN [none |-> TRUE, value |-> <<>>]
    ELSE [none |-> FALSE,
          value |-> [i \in 1..Len(entry.data) |-> ProductOf(entry.data[i]).value]]

\* CacheService.set: the entry after setex; a store error is logged and
\* leaves the entry as it was
CacheService_set(entry, value, fault) ==
    IF fault THEN entry ELSE [present |-> TRUE, data |-> dumps(value)]

\* sequences of at most n elements of S
SeqsUpTo(S, n) == UNION {[1..k -> S] : k \in 0..n}

\* a list of Product or a list of Feedback is about to be stored
InitCache ==
    /\ EngineIdle
    /\ cache = NoEntry
    /\ \E recs \in SeqsUpTo(Products, MaxRecords) \cup SeqsUpTo(Feedbacks, MaxRecords) :
           call = [fn |-> "round_trip", records |-> recs]
    /\ outcome = [state |-> "pending"]
    /\ requests = 0
    /\ store_fault = {}

\* await cache_service.set(key, records, ttl)
CacheSet ==
    /\ call.fn = "round_trip"
    /\ outcome.state = "pending"
    /\ cache' = CacheService_set(cache, call.records, "setex" \in store_fault)
    /\ outcome' = [state |-> "stored"]
    /\ UNCHANGED <<call, requests, store_fault>>
    /\ UNCHANGED engine_vars

\* await cache_service.get(key)
CacheGet ==
    /\ call.fn = "round_trip"
    /\ outcome.state = "stored"
    /\ outcome' = [state |-> "returned", got |-> CacheService_get(cache, "get" \in store_fault)]
    /\ UNCHANGED <<call, requests, store_fault, cache>>
    /\ UNCHANGED engine_vars

NextCache == CacheSet \/ CacheGet

SpecCache == InitCache /\ [][NextCache]_vars

---------------------------------------------------------------------------
(* SearchProductsByLinkUseCase.execute, lines 29-58: the comparator.      *)
(* Prices are kept in kopecks, so that 10% of a price is exact.           *)

\* the upstream catalogue: the record the searches return for identity i
CatalogPrice(i) == <<100000, 5000, 10000, 50000, 150000, 80000, 90000, 100000, 30000>>[((i - 1) % 9) + 1]
CatalogRating(i) == <<45, 50, 40, 45, 50, 50, 45, 45, 50>>[((i - 1) % 9) + 1]
CatalogSubject(i) == IF i % 9 = 6 THEN 2 ELSE 1

\* drift is what the upstream added to the price between the two searches
Candidate(i, drift) ==
    [id |-> i, price |-> CatalogPrice(i) + drift, rating |-> CatalogRating(i),
     subjectId |-> CatalogSubject(i), feedbacks |-> 0]

\* the k-th smallest element of the set of numbers S
Nth(S, k) == CHOOSE x \in S : Cardinality({y \in S : y <= x}) = k

\* what a search returns for the identities in S: sorted descending by rating
SearchResult(S, drift) ==
    sorted([k \in 1..Cardinality(S) |-> Candidate(Nth(S, k), drift)])

\* list({p.id: p for p in s}.values()): a key keeps the place of its first
\* occurrence, its value is overwritten by every later occurrence
LastValue(s) ==
    LET first == {i \in 1..Len(s) : \A j \in 1..(i - 1) : s[j].id # s[i].id}
        last(i) == CHOOSE j \in 1..Len(s) :
                       s[j].id = s[i].id /\ \A m \in (j + 1)..Len(s) : s[m].id # s[i].id
    IN  [k \in 1..Cardinality(first) |-> s[last(Nth(first, k))]]

\* the same when a key keeps the value of its first occurrence
FirstValue(s) ==
    LET first == {i \in 1..Len(s) : \A j \in 1..(i - 1) : s[j].id # s[i].id}
    IN  [k \in 1..Cardinality(first) |-> s[Nth(first, k)]]

dict_values(s) == LastValue(s)

\* p.price >= product.price * 0.1
NoFloor(p, product) == TRUE
AboveFloor(p, product) == p.price * 10 >= product.price

\* the conditions of the two list comprehensions
CheaperNoSubject(p, product) ==
    /\ p.price <= product.price
    /\ AboveFloor(p, product)
    /\ p.feedbacks >= 0
    /\ p.id # product.id

Cheaper(p, product) ==
    /\ p.price <= product.price
    /\ AboveFloor(p, product)
    /\ p.feedbacks >= 0
    /\ p.subjectId = product.subjectId
    /\ p.id # product.id

BetterRatedWithSelf(p, product) ==
    /\ p.rating >= product.rating
    /\ AboveFloor(p, product)
    /\ p.feedbacks >= 0
    /\ p.subjectId = product.subjectId

BetterRated(p, product) ==
    /\ p.rating >= product.rating
    /\ AboveFloor(p, product)
    /\ p.feedbacks >= 0
    /\ p.subjectId = product.subjectId
    /\ p.id # product.id

\* sorted(s, key=lambda x: x.price): stable, ascending
InsertByPrice(s, x) ==
    LET k == Cardinality({i \in 1..Len(s) : s[i].price <= x.price})
    IN  SubSeq(s, 1, k) \o <<x>> \o SubSeq(s, k + 1, Len(s))

RECURSIVE SortPrefixByPrice(_, _)
SortPrefixByPrice(s, n) ==
    IF n = 0 THEN <<>>
    ELSE CHOOSE u \in {InsertByPrice(t, s[n]) : t \in {SortPrefixByPrice(s, n - 1)}} : TRUE

sorted_by_price(s) == SortPrefixByPrice(s, Len(s))

\* s[:3]
Top == 3
FirstTop(s) == SubSeq(s, 1, Min(Top, Len(s)))

\* lines 29-58 for the reference product and the results of the two searches
compare(product, cheap_products, expensive_products) ==
    LET pool == dict_values(cheap_products \o expensive_products)
    IN  [all_products |-> pool,
         better_price |->
             FirstTop(sorted_by_price(SelectSeq(pool, LAMBDA p : Cheaper(p, product)))),
         better_rating |->
             FirstTop(sorted(SelectSeq(pool, LAMBDA p : BetterRated(p, product))))]

\* the reference product, and the results of the two searches for its name
InitCompare ==
    /\ EngineIdle
    /\ cache = NoEntry
    /\ \E A \in SUBSET (1..MaxCatalog) : \E B \in SUBSET (1..MaxCatalog) :
       \E d \in {0, 1000} :
           /\ Cardinality(A) <= MaxFound
           /\ Cardinality(B) <= MaxFound
           /\ call = [fn |-> "compare", product |-> Candidate(1, 0),
                      cheap_products |-> SearchResult(A, 0),
                      expensive_products |-> SearchResult(B, d)]
    /\ outcome = [state |-> "pending"]
    /\ requests = 0
    /\ store_fault = {}

\* the comparator runs
Compare ==
    /\ call.fn = "compare"
    /\ outcome.state = "pending"
    /\ outcome' = [state |-> "returned",
                   value |-> compare(call.product, call.cheap_products, call.expensive_products)]
    /\ UNCHANGED <<call, requests, store_fault, cache>>
    /\ UNCHANGED engine_vars

NextCompare == Compare

SpecCompare == InitCompare /\ [][NextCompare]_vars

---------------------------------------------------------------------------
(* WBParser._parse_products: the decoder of one upstream response         *)

\* where the response holds its items: under "products", under
\* data.products, nowhere, under "products" but not as a list, or under
\* "products" next to a "data" that is null
Shapes == {"products", "data.products", "absent", "not_list", "null_data"}

\* how an item holds its price: no "sizes" at all, an empty "sizes" list, a
\* size with a price, or a size whose "price" is null
Sizes == {"absent", "empty", "priced", "null_price"}

\* the items of a response; id = 0 and root = 0 stand for a missing field
PageItems == [id : 0..MaxIds, sizes : Sizes, root : {0, 7}]

\* data.get("products", data.get("data", {}).get("products", [])): the
\* default is evaluated first, whether it is needed or not
data_products(data) ==
    IF data.shape = "null_data" THEN [raised |-> TRUE, exc |-> "AttributeError"]
    ELSE [raised |-> FALSE,
          list |-> data.shape \in {"products", "data.products", "absent"},
          items |-> IF data.shape \in {"products", "data.products"} THEN data.items ELSE <<>>]

\* lines 384-385: the price of an item, computed before its id is looked at
item_price(item) ==
    CASE item.sizes = "empty" -> [raised |-> TRUE, exc |-> "IndexError"]
      [] item.sizes = "null_price" -> [raised |-> TRUE, exc |-> "AttributeError"]
      [] item.sizes = "priced" -> [raised |-> FALSE, price |-> 100]
      [] item.sizes = "absent" -> [raised |-> FALSE, price |-> 0]

\* "if not product_id: continue" lets the item through
AnyId(item) == TRUE
HasId(item) == item.id # 0

\* lines 390-402: the Product of an item
product_of(item) ==
    [id |-> item.id, price |-> item_price(item).price,
     root |-> IF item.root = 0 THEN item.id ELSE item.root]

\* the body of the loop over the first n items, stopped by the first raise
RECURSIVE parse_items(_, _)
parse_items(items, n) ==
    IF n = 0 THEN [raised |-> FALSE, exc |-> "", products |-> <<>>]
    ELSE LET before == CHOOSE u \in {parse_items(items, n - 1)} : TRUE
             item == items[n]
         IN  IF before.raised THEN before
             ELSE IF item_price(item).raised
             THEN [raised |-> TRUE, exc |-> item_price(item).exc, products |-> <<>>]
             ELSE IF ~HasId(item) THEN before
             ELSE [raised |-> FALSE, exc |-> "",
                   products |-> Append(before.products, product_of(item))]

_parse_products(data) ==
    LET found == data_products(data) IN
    IF found.raised THEN [raised |-> TRUE, exc |-> found.exc, products |-> <<>>]
    ELSE IF ~found.list THEN [raised |-> FALSE, exc |-> "", products |-> <<>>]
    ELSE parse_items(found.items, Len(found.items))

\* a response is about to be decoded
InitDecode ==
    /\ EngineIdle
    /\ cache = NoEntry
    /\ \E shape \in Shapes : \E items \in SeqsUpTo(PageItems, MaxItems) :
           call = [fn |-> "_parse_products", data |-> [shape |-> shape, items |-> items]]
    /\ outcome = [state |-> "pending"]
    /\ requests = 0
    /\ store_fault = {}

\* the decoder runs
Decode ==
    /\ call.fn = "_parse_products"
    /\ outcome.state = "pending"
    /\ LET r == _parse_products(call.data) IN
         outcome' = IF r.raised THEN [state |-> "raised", exc |-> r.exc, value |-> <<>>]
                    ELSE [state |-> "returned", exc |-> "", value |-> r.products]
    /\ UNCHANGED <<call, requests, store_fault, cache>>
    /\ UNCHANGED engine_vars

NextDecode == Decode

SpecDecode == InitDecode /\ [][NextDecode]_vars

---------------------------------------------------------------------------
(* WBParser.get_product_by_link and its caller                            *)
(* SearchProductsByLinkUseCase.execute                                    *)

\* the parameters of CacheService.get, besides self
GetParameters == {"key"}

\* the arguments of a call bind to the parameters of get
Binds(arguments) == arguments \subseteq GetParameters

\* the product behind the link, as the detail endpoint or the cache holds it
LinkProduct(root) ==
    [kind |-> "Product", id |-> 1, name |-> "n", price |-> 100000, rating |-> 45,
     link |-> "l", feedbacks |-> 0, subjectId |-> 1, root |-> root]

\* what the detail endpoint answers: an error status, nothing (the connection
\* fails), no product, a product whose root is null, or the product
Details == {"http_error", "network_error", "no_product", "no_root", "product"}

\* result of a call with the given state, exception or value, cache entry
\* left behind and number of upstream requests issued
RaisedMsg(exc, msg, entry, n) ==
    [state |-> "raised", exc |-> exc, msg |-> msg, value |-> <<>>, cache |-> entry,
     requests |-> n]
Raised(exc, entry, n) == RaisedMsg(exc, "", entry, n)
Returned(value, entry, n) ==
    [state |-> "returned", exc |-> "", msg |-> "", value |-> <<value>>, cache |-> entry,
     requests |-> n]

\* lines 91-133 of the call c, on the entry left after the cache lookup
fetch_by_link(c, entry) ==
    IF ~c.link_ok THEN RaisedMsg("ParserError", "Invalid product link", entry, 0)
    ELSE CASE c.upstream = "http_error" ->
                RaisedMsg("ParserError", "Failed to fetch product", entry, 1)
           [] c.upstream = "network_error" ->
                RaisedMsg("ParserError", "Failed to parse product", entry, 1)
           [] c.upstream = "no_product" ->
                RaisedMsg("ParserError", "Failed to parse product", entry, 1)
           [] c.upstream = "no_root" ->
                RaisedMsg("ParserError", "Failed to parse product", entry, 1)
           [] c.upstream = "product" ->
                Returned(LinkProduct(7),
                         CacheService_set(entry, <<LinkProduct(7)>>, "setex" \in store_fault), 1)

\* lines 78-133 of the call c: the lookup is called as get(cache_key, model=Product)
get_product_by_link(c) ==
    IF ~Binds({"key", "model"}) THEN Raised("TypeError", cache, 0)
    ELSE LET cached_product == CacheService_get(cache, "get" \in store_fault)
             hit == ~cached_product.none /\ Len(cached_product.value) > 0
         IN  IF hit /\ cached_product.value[1].root # 0
             THEN Returned(cached_product.value[1], cache, 0)
             ELSE IF hit /\ "delete" \in store_fault
             THEN Raised("RedisError", cache, 0)
             ELSE fetch_by_link(c, IF hit THEN NoEntry ELSE cache)

\* page = 1 .. max_pages = 100 of get_feedbacks
FeedbackMaxPages == 100

\* the feedbacks page p of the upstream holds: those of call.fb_pages, and
\* call.fb_tail on every page behind them
feedbacks_on(p) ==
    LET k == IF p <= Len(call.fb_pages) THEN call.fb_pages[p] ELSE call.fb_tail
    IN  [i \in 1..k |-> <<p, i>>]

\* "page > max_pages" after "page += 1"
PastLastPage(page) == page > FeedbackMaxPages

\* lines 154-172: the loop from the request for the given page on, with
\* all_feedbacks = acc; pages counts the requests issued; the request for
\* page call.fb_fail raises
RECURSIVE feedback_loop(_, _)
feedback_loop(page, acc) ==
    IF page = call.fb_fail
    THEN [raised |-> TRUE, pages |-> page, all_feedbacks |-> acc]
    ELSE IF feedbacks_on(page) = <<>>
    THEN [raised |-> FALSE, pages |-> page, all_feedbacks |-> acc]
    ELSE IF Len(acc \o feedbacks_on(page)) >= call.fb_count \/ PastLastPage(page + 1)
    THEN [raised |-> FALSE, pages |-> page, all_feedbacks |-> acc \o feedbacks_on(page)]
    ELSE CHOOSE u \in {feedback_loop(page + 1, t) : t \in {acc \o feedbacks_on(page)}} : TRUE

\* lines 135-187: the product lookup, the cache lookup called as
\* get(cache_key, model=Feedback), the loop, the cache write
get_feedbacks ==
    LET r == get_product_by_link(call) IN
    IF r.state = "raised"
    THEN [state |-> "raised", exc |-> r.exc, msg |-> r.msg, value |-> <<>>,
          cache |-> r.cache, requests |-> r.requests, pages |-> 0]
    ELSE IF r.value[1].root = 0
    THEN [state |-> "raised", exc |-> "ParserError", msg |-> "Failed to extract product_nm",
          value |-> <<>>, cache |-> r.cache, requests |-> r.requests, pages |-> 0]
    ELSE IF ~Binds({"key", "model"})
    THEN [state |-> "raised", exc |-> "TypeError", msg |-> "", value |-> <<>>,
          cache |-> r.cache, requests |-> r.requests, pages |-> 0]
    ELSE LET l == feedback_loop(1, <<>>) IN
         IF l.raised
         THEN [state |-> "raised", exc |-> "ParserError", msg |-> "Failed to fetch feedbacks",
               value |-> <<>>, cache |-> r.cache, requests |-> r.requests + l.pages,
               pages |-> l.pages]
         \* the entry written under the feedbacks key is another entry than cache
         ELSE [state |-> "returned", exc |-> "", msg |-> "", value |-> <<l.all_feedbacks>>,
               cache |-> r.cache, requests |-> r.requests + l.pages, pages |-> l.pages]

\* what the brand file endpoint answers: an error status, nothing (the
\* connection fails), a file without id or siteId, or the ids
BrandFiles == {"http_error", "network_error", "no_ids", "ids"}

\* "if not brand_name" (lines 256-259)
HasBrandName(url_ok) == url_ok

\* lines 255-291
get_supplier_ids_by_brand_url(url_ok, file) ==
    IF ~HasBrandName(url_ok)
    THEN [state |-> "raised", exc |-> "ParserError", msg |-> "Invalid brand URL",
          value |-> <<>>, requests |-> 0]
    ELSE CASE file = "http_error" ->
                [state |-> "raised", exc |-> "ParserError", msg |-> "Failed to fetch brand data",
                 value |-> <<>>, requests |-> 1]
           [] file = "network_error" ->
                [state |-> "raised", exc |-> "ParserError", msg |-> "Failed to parse brand data",
                 value |-> <<>>, requests |-> 1]
           [] file = "no_ids" ->
                [state |-> "raised", exc |-> "ParserError", msg |-> "Failed to parse brand data",
                 value |-> <<>>, requests |-> 1]
           [] file = "ids" ->
                [state |-> "returned", exc |-> "", msg |-> "", value |-> <<<<7, 1>>>>,
                 requests |-> 1]

\* the feedback pages of the upstream, the declared feedbackCount and the
\* page whose request fails (0: none) of a call of get_feedbacks
FeedbackInputs ==
    [fb_pages : SeqsUpTo(0..2, MaxFeedbackPages), fb_tail : {0, 1},
     fb_count : {0, 2, 2 * FeedbackMaxPages}, fb_fail : 0..MaxFeedbackPages]

\* a call of get_product_by_link or of execute is about to start
InitLinkLookup ==
    /\ cache \in {NoEntry,
                  [present |-> TRUE, data |-> dumps(<<LinkProduct(0)>>)],
                  [present |-> TRUE, data |-> dumps(<<LinkProduct(7)>>)]}
    /\ \E fn \in {"get_product_by_link", "execute"} : \E ok \in BOOLEAN : \E d \in Details :
           call = [fn |-> fn, link_ok |-> ok, upstream |-> d,
                   cheap_products |-> SearchResult({2, 3}, 0),
                   expensive_products |-> SearchResult({3, 4}, 0)]
    /\ store_fault \in SUBSET {"get", "delete", "setex"}

\* a call of get_feedbacks is about to start
InitFeedbacks ==
    /\ cache \in {NoEntry, [present |-> TRUE, data |-> dumps(<<LinkProduct(7)>>)]}
    /\ \E ok \in BOOLEAN : \E d \in {"http_error", "product"} : \E f \in FeedbackInputs :
           call = [fn |-> "get_feedbacks", link_ok |-> ok, upstream |-> d,
                   fb_pages |-> f.fb_pages, fb_tail |-> f.fb_tail,
                   fb_count |-> f.fb_count, fb_fail |-> f.fb_fail]
    /\ store_fault \in {{}, {"get"}}

\* a call of get_supplier_ids_by_brand_url is about to start
InitBrand ==
    /\ cache = NoEntry
    /\ \E ok \in BOOLEAN : \E file \in BrandFiles :
           call = [fn |-> "get_supplier_ids_by_brand_url", url_ok |-> ok, upstream |-> file]
    /\ store_fault = {}

InitLink ==
    /\ EngineIdle
    /\ outcome = [state |-> "pending"]
    /\ requests = 0
    /\ InitLinkLookup \/ InitFeedbacks \/ InitBrand

\* productByLink: the whole of get_product_by_link
ProductByLink ==
    /\ call.fn = "get_product_by_link"
    /\ outcome.state = "pending"
    /\ LET r == get_product_by_link(call) IN
         /\ outcome' = [state |-> r.state, exc |-> r.exc, msg |-> r.msg, value |-> r.value]
         /\ cache' = r.cache
         /\ requests' = r.requests
    /\ UNCHANGED <<call, store_fault>>
    /\ UNCHANGED engine_vars

\* alternativesByLink: execute turns any exception of the lookup into
\* ValueError (lines 17-21), else compares the results of the two searches
AlternativesByLink ==
    /\ call.fn = "execute"
    /\ outcome.state = "pending"
    /\ LET r == get_product_by_link(call) IN
         /\ outcome' = IF r.state = "raised"
                       THEN [state |-> "raised", exc |-> "ValueError",
                             msg |-> "Failed to fetch product", value |-> <<>>]
                       ELSE [state |-> "returned", exc |-> "", msg |-> "",
                             value |-> <<compare(r.value[1], call.cheap_products,
                                                 call.expensive_products)>>]
         /\ cache' = r.cache
         /\ requests' = r.requests
    /\ UNCHANGED <<call, store_fault>>
    /\ UNCHANGED engine_vars

\* feedbacks: the whole of get_feedbacks
FeedbacksByLink ==
    /\ call.fn = "get_feedbacks"
    /\ outcome.state = "pending"
    /\ LET r == get_feedbacks IN
         /\ outcome' = [state |-> r.state, exc |-> r.exc, msg |-> r.msg, value |-> r.value,
                        pages |-> r.pages]
         /\ cache' = r.cache
         /\ requests' = r.requests
    /\ UNCHANGED <<call, store_fault>>
    /\ UNCHANGED engine_vars

\* supplierIdsByBrandUrl: the whole of get_supplier_ids_by_brand_url
SupplierIdsByBrandUrl ==
    /\ call.fn = "get_supplier_ids_by_brand_url"
    /\ outcome.state = "pending"
    /\ LET r == get_supplier_ids_by_brand_url(call.url_ok, call.upstream) IN
         /\ outcome' = [state |-> r.state, exc |-> r.exc, msg |-> r.msg, value |-> r.value]
         /\ requests' = r.requests
    /\ UNCHANGED <<call, store_fault, cache>>
    /\ UNCHANGED engine_vars

NextLink == ProductByLink \/ AlternativesByLink \/ FeedbacksByLink \/ SupplierIdsByBrandUrl

SpecLink == InitLink /\ [][NextLink]_vars

---------------------------------------------------------------------------
(* PriceRangeUseCase.execute and calculate_price_distribution              *)
(* Prices are whole kopecks; a bound b of a bucket is kept as the whole     *)
(* number Buckets * b, so that "(max_price + 100) / 5" loses nothing.       *)

\* "+ 100" roubles of line 11, in kopecks
Margin == 10000

\* "/ 5" of line 11 and "range(5)" of lines 12 and 15
Buckets == 5

\* kopecks in a rouble: the unit the labels are printed in
Kopecks == 100

\* prices the searches of the inputs return
PriceValues == {0, 1, 3999, 4000, 8000, 10000, 15000}

RECURSIVE SumPrefix(_, _)
SumPrefix(s, n) == IF n = 0 THEN 0 ELSE SumPrefix(s, n - 1) + s[n]

\* sum(prices), the numerator of mean(prices)
sum(prices) == SumPrefix(prices, Len(prices))

max(prices) == CHOOSE m \in {prices[j] : j \in DOMAIN prices} :
                   \A j \in DOMAIN prices : prices[j] <= m
min(prices) == CHOOSE m \in {prices[j] : j \in DOMAIN prices} :
                   \A j \in DOMAIN prices : m <= prices[j]

\* Buckets * step without the margin
step_no_margin(max_price) == max_price
\* Buckets * step, for step = (max_price + 100) / 5
step(max_price) == max_price + Margin

\* "i * step <= price < (i + 1) * step"
in_bucket(i, price, st) == i * st <= Buckets * price /\ Buckets * price < (i + 1) * st

\* "{x:.0f}" of x = n / d: the nearest whole number, the even one of two
format_0f(n, d) ==
    LET q == n \div d
        r == n % d
    IN  IF 2 * r < d THEN q
        ELSE IF 2 * r > d THEN q + 1
        ELSE IF q % 2 = 0 THEN q ELSE q + 1

\* the key f"{i*step:.0f}-{(i+1)*step:.0f}" of bucket i
bucket_key(i, st) ==
    <<format_0f(i * st, Buckets * Kopecks), format_0f((i + 1) * st, Buckets * Kopecks)>>

\* the bucket the inner loop counts the price in: the first that holds it
counted_in(price, st) ==
    {i \in 0..(Buckets - 1) :
        in_bucket(i, price, st) /\ \A h \in 0..(i - 1) : ~in_bucket(h, price, st)}

\* lines 9-20: the dictionary from the keys to the counts
calculate_price_distribution(prices) ==
    LET st == step(max(prices))
        keys == {bucket_key(i, st) : i \in 0..(Buckets - 1)}
    IN  [k \in keys |->
            Cardinality({j \in DOMAIN prices :
                            \E i \in counted_in(prices[j], st) : bucket_key(i, st) = k})]

\* lines 26-55, on the prices of the products the search returned
execute_price_range(prices) ==
    IF prices = <<>>
    THEN [state |-> "returned", min_price |-> 0, max_price |-> 0, avg_price |-> <<0, 1>>,
          total_products |-> 0, price_distribution |-> <<>>]
    ELSE [state |-> "returned", min_price |-> min(prices), max_price |-> max(prices),
          avg_price |-> <<sum(prices), Len(prices)>>, total_products |-> Len(prices),
          price_distribution |-> <<calculate_price_distribution(prices)>>]

\* a call of priceRange is about to start; the search has returned
InitPrice ==
    /\ EngineIdle
    /\ cache = NoEntry
    /\ \E prices \in SeqsUpTo(PriceValues, MaxPrices) :
           call = [fn |-> "price_range", prices |-> prices]
    /\ outcome = [state |-> "pending"]
    /\ requests = 0
    /\ store_fault = {}

\* priceRange: the whole of execute behind the search
PriceRange ==
    /\ call.fn = "price_range"
    /\ outcome.state = "pending"
    /\ outcome' = execute_price_range(call.prices)
    /\ UNCHANGED <<call, requests, store_fault, cache>>
    /\ UNCHANGED engine_vars

NextPrice == PriceRange

SpecPrice == InitPrice /\ [][NextPrice]_vars

---------------------------------------------------------------------------
(* Cache keys: the _generate_cache_key family, up to the string that is     *)
(* handed to md5. A string is the sequence of its characters.               *)

\* the characters of the string arguments
Chars == {"a", ":"}

\* the strings of up to MaxChars characters
Strings == SeqsUpTo(Chars, MaxChars)

\* the integer arguments
Numbers == {1, 2}

Digits == <<"0", "1", "2", "3", "4", "5", "6", "7", "8", "9">>

\* "{n}" of an integer 0 <= n <= 9
str(n) == <<Digits[n + 1]>>

\* f"wb:search:{query}:{sort}:{pages}"
_generate_cache_key(query, sort, pages_arg) ==
    <<"w", "b", ":", "s", "e", "a", "r", "c", "h", ":">> \o query \o <<":">> \o sort
        \o <<":">> \o str(pages_arg)

\* f"wb:product:{link}"
_generate_cache_key_for_link(link) ==
    <<"w", "b", ":", "p", "r", "o", "d", "u", "c", "t", ":">> \o link

\* f"wb:feedbacks:{product_nm}"
_generate_cache_key_for_feedbacks(product_nm) ==
    <<"w", "b", ":", "f", "e", "e", "d", "b", "a", "c", "k", "s", ":">> \o str(product_nm)

\* f"wb:supplier:{supplier_id}:{pages}"
_generate_cache_key_for_supplier(supplier_id, pages_arg) ==
    <<"w", "b", ":", "s", "u", "p", "p", "l", "i", "e", "r", ":">> \o str(supplier_id)
        \o <<":">> \o str(pages_arg)

\* the logical queries: operation kind and parameters
Queries ==
    {[op |-> "search", query |-> q, sort |-> srt, pages |-> n] :
        q \in Strings, srt \in Strings, n \in Numbers}
    \cup {[op |-> "product", link |-> l] : l \in Strings}
    \cup {[op |-> "feedbacks", product_nm |-> n] : n \in Numbers}
    \cup {[op |-> "supplier", supplier_id |-> n, pages |-> m] : n \in Numbers, m \in Numbers}

\* the key string the operation of the query derives (lines 23, 79, 142, 190)
cache_key(q) ==
    CASE q.op = "search" -> _generate_cache_key(q.query, q.sort, q.pages)
      [] q.op = "product" -> _generate_cache_key_for_link(q.link)
      [] q.op = "feedbacks" -> _generate_cache_key_for_feedbacks(q.product_nm)
      [] q.op = "supplier" -> _generate_cache_key_for_supplier(q.supplier_id, q.pages)

\* two queries are about to derive their keys
InitKey ==
    /\ EngineIdle
    /\ cache = NoEntry
    /\ \E q1 \in Queries : \E q2 \in Queries :
           call = [fn |-> "cache_key", first |-> <<q1>>, second |-> <<q2>>]
    /\ outcome = [state |-> "pending"]
    /\ requests = 0
    /\ store_fault = {}

\* both keys are derived
DeriveKeys ==
    /\ call.fn = "cache_key"
    /\ outcome.state = "pending"
    /\ outcome' = [state |-> "returned", first |-> cache_key(call.first[1]),
                   second |-> cache_key(call.second[1])]
    /\ UNCHANGED <<call, requests, store_fault, cache>>
    /\ UNCHANGED engine_vars

NextKey == DeriveKeys

SpecKey == InitKey /\ [][NextKey]_vars

---------------------------------------------------------------------------
(* Properties *)

RecordsOf(s) == {s[i] : i \in DOMAIN s}

NoFailures == \A p \in DOMAIN fails : fails[p] = 0

IsDescending(s) == \A i \in 1..(Len(s) - 1) : s[i].rating >= s[i + 1].rating

\* first page of the batch that page p belongs to
BatchStartOf(p) == ((p - 1) \div BatchStep) * BatchStep + 1

\* C1: when page k is the first empty page, pages 1..k-1 are non-empty, no
\* request fails, and the tasks finish and are consumed in page order (so no
\* page beyond k gets ahead of page k), the first run returns exactly the
\* records of pages 1..k-1.
C1_PrefixUnion ==
    \A k \in DOMAIN content :
        (pc = "done" /\ run = 1 /\ NoFailures /\ k = FirstEmpty /\ ~out_of_order)
            => RecordsOf(ret) = UNION {RecordsOf(content[j]) : j \in 1..(k - 1)}

C2_Scenario ==
    /\ mode = "search" /\ pages = 2 /\ run = 1 /\ pc = "done"
    /\ content = <<PageOf(1, 20), <<>>>>
    /\ NoFailures

C2_Twenty(s) ==
    /\ Len(s) = 20
    /\ RecordsOf(s) = RecordsOf(PageOf(1, 20))
    /\ IsDescending(s)

\* C2 as stated: search(q, "cheap", 2) on a cold cache, page 1 holding 20
\* products and page 2 empty, returns exactly the 20 products sorted
\* descending by rating, whatever the completion order.
C2_AlwaysTwenty == C2_Scenario => C2_Twenty(ret)

\* C2 as amended: the result is the 20 products sorted descending by rating
\* when page 1's result is consumed before the empty page 2 is seen, and the
\* empty list when the empty page 2 is seen first (page 1's task is then
\* cancelled or its result is left unread).
C2_TwentyOrNone ==
    C2_Scenario =>
        /\ (all_products # <<>> => C2_Twenty(ret))
        /\ (all_products = <<>> => ret = <<>>)
        /\ (task[1] = "cancelled" => ret = <<>>)

C2_Witness == C2_Scenario /\ C2_Twenty(ret) /\ task[2] = "done"

\* C3: when no page is empty (and no request fails), the first run has
\* requested every page from 1 to min(P, ceiling) when it returns.
C3_AllPagesRequested ==
    (pc = "done" /\ run = 1 /\ NoFailures /\ FirstEmpty = 0)
        => \A p \in 1..max_pages : attempt[p] >= 1

\* C4: a transient failure does not stop the orchestrator: as long as no
\* page of the upstream is empty, no page task is ever cancelled.
C4_FailureDoesNotStop ==
    FirstEmpty = 0 => \A p \in DOMAIN task : task[p] # "cancelled"

\* C5: once a page fetch of a batch has resolved to an empty page, no task
\* of a later batch exists.
C5_NoLaterBatch ==
    \A p \in DOMAIN task :
        (task[p] = "done" /\ content[p] = <<>> /\ fails[p] = 0)
            => \A q \in DOMAIN task :
                   q >= BatchStartOf(p) + BatchStep => task[q] = "none"

\* C6: every invocation that starts eventually returns.
C6_Terminates == (pc = "start") ~> (pc = "done")

C6_Witness ==
    /\ pc = "done" /\ mode = "supplier"
    /\ \E p \in DOMAIN task : fails[p] = Retries /\ attempt[p] = Retries /\ task[p] = "done"

\* C7: when the invocation has returned, every page task it created has
\* finished or has been cancelled and has unwound.
C7_Quiescent ==
    pc = "done" => \A p \in DOMAIN task : task[p] \in {"none", "done", "cancelled"}

C7_Witness ==
    /\ pc = "done"
    /\ \E p \in DOMAIN task : task[p] = "cancelled"
    /\ \E p \in DOMAIN task : task[p] = "done"

\* C8: never more page fetches in flight than the semaphore of the mode
\* allows (10 for search, 5 for the supplier catalogue); a retrying page
\* counts as in flight.
C8_Cap ==
    Cardinality(InFlight) <= (IF mode = "search" THEN 10 ELSE 5)

C8_Witness ==
    /\ mode = "supplier"
    /\ Cardinality(InFlight) = 5
    /\ \E p \in DOMAIN task : task[p] = "sem"
    /\ \E p \in DOMAIN task : task[p] = "backoff"

\* C9: supplier mode: a page is requested at most 30 times; the first
\* request that succeeds ends the retries and its records are the result of
\* the page; the result is the empty list for lack of a success only after
\* 30 failed requests.
C9_Retries ==
    mode = "supplier" =>
        \A p \in DOMAIN task :
            /\ attempt[p] <= 30
            /\ task[p] = "done" =>
                   IF fails[p] < 30
                   THEN attempt[p] = fails[p] + 1 /\ result[p] = content[p]
                   ELSE attempt[p] = 30 /\ result[p] = <<>>

C9_Witness ==
    /\ mode = "supplier"
    /\ \E p \in DOMAIN task :
           /\ task[p] = "done" /\ fails[p] = 29 /\ attempt[p] = 30
           /\ result[p] = content[p] /\ content[p] # <<>>

\* C10: a re-run of search that finds the first run's cache entry returns
\* the list the first run returned and issues no upstream request (stated
\* for an upstream none of whose requests fail).
C10_Idempotent ==
    (mode = "search" /\ run = 2 /\ pc = "done" /\ warm /\ NoFailures)
        => /\ ret = prev_ret
           /\ \A p \in DOMAIN attempt : attempt[p] = 0

\* C13: a list stored with set and read back at once with get is the list
\* that was stored (same length, order, identities and fields), for a list
\* of Product and for a list of Feedback
C13_RoundTrip ==
    (call.fn = "round_trip" /\ outcome.state = "returned") =>
        (~outcome.got.none /\ outcome.got.value = call.records)

\* C14: the list an invocation of search or productsBySupplier returns is
\* ordered by non-increasing rating, whether the run ended by exhaustion or
\* by an empty page, and when it was served from the cache
C14_SortedByRating == pc = "done" => IsDescending(ret)

\* a re-run is served from the cache the list of the first run: the
\* records of at least three pages, which no order of accumulation sorts
C14_Witness ==
    /\ pc = "done"
    /\ run = 2
    /\ warm
    /\ all_products = <<>>
    /\ ret = prev_ret
    /\ Len(ret) > 4
    /\ \E i \in 1..Len(ret) : \E j \in 1..Len(ret) : ret[i].rating # ret[j].rating

---------------------------------------------------------------------------
(* The comparator's claims *)

Compared == call.fn = "compare" /\ outcome.state = "returned"

\* positions of the pool whose record qualifies as a cheaper alternative
CheaperAt(pool, ref) ==
    {i \in 1..Len(pool) : /\ pool[i].price <= ref.price
                          /\ pool[i].price * 10 >= ref.price
                          /\ pool[i].subjectId = ref.subjectId
                          /\ pool[i].id # ref.id}

\* positions of the pool whose record qualifies as a better-rated alternative
BetterRatedAt(pool, ref) ==
    {i \in 1..Len(pool) : /\ pool[i].rating >= ref.rating
                          /\ pool[i].price * 10 >= ref.price
                          /\ pool[i].subjectId = ref.subjectId
                          /\ pool[i].id # ref.id}

\* list holds min(3, |E|) distinct records of the pool positions E
TopThreeOf(list, pool, E) ==
    /\ Len(list) = Min(3, Cardinality(E))
    /\ \A i \in 1..Len(list) : \E e \in E : pool[e] = list[i]
    /\ \A i \in 1..Len(list) : \A j \in 1..Len(list) : list[i].id = list[j].id => i = j

\* C15: the cheaper-alternatives list is the first 3 (or fewer), in ascending
\* price order, of the candidates with price <= the reference price, price >=
\* 10% of it, the reference's subjectId and another identity
C15_Cheaper ==
    Compared =>
        LET pool == outcome.value.all_products
            list == outcome.value.better_price
            E == CheaperAt(pool, call.product)
        IN  /\ TopThreeOf(list, pool, E)
            /\ \A i \in 1..(Len(list) - 1) : list[i].price <= list[i + 1].price
            /\ \A e \in E : (\A i \in 1..Len(list) : list[i] # pool[e]) =>
                   \A i \in 1..Len(list) : list[i].price <= pool[e].price

\* more than 3 candidates qualify as cheaper, so that the list is cut
C15_Witness ==
    /\ Compared
    /\ Cardinality(CheaperAt(outcome.value.all_products, call.product)) > 3
    /\ Len(outcome.value.better_price) = 3

\* C16: the better-rated list is the first 3 (or fewer), in descending rating
\* order, of the candidates with rating >= the reference rating, price >= 10%
\* of the reference price, the reference's subjectId and another identity;
\* their price has no ceiling
C16_BetterRated ==
    Compared =>
        LET pool == outcome.value.all_products
            list == outcome.value.better_rating
            E == BetterRatedAt(pool, call.product)
        IN  /\ TopThreeOf(list, pool, E)
            /\ \A i \in 1..(Len(list) - 1) : list[i].rating >= list[i + 1].rating
            /\ \A e \in E : (\A i \in 1..Len(list) : list[i] # pool[e]) =>
                   \A i \in 1..Len(list) : list[i].rating >= pool[e].rating

\* more than 3 candidates qualify, the reference product itself is in the
\* pool, and a listed one costs more than the reference product
C16_Witness ==
    /\ Compared
    /\ Cardinality(BetterRatedAt(outcome.value.all_products, call.product)) > 3
    /\ \E i \in 1..Len(outcome.value.all_products) :
           outcome.value.all_products[i].id = call.product.id
    /\ \E i \in 1..Len(outcome.value.better_rating) :
           outcome.value.better_rating[i].price > call.product.price

\* C17: a candidate priced below 10% of the reference price is in neither list
C17_Floor ==
    Compared =>
        /\ \A i \in 1..Len(outcome.value.better_price) :
               outcome.value.better_price[i].price * 10 >= call.product.price
        /\ \A i \in 1..Len(outcome.value.better_rating) :
               outcome.value.better_rating[i].price * 10 >= call.product.price

\* the pool holds a candidate below the floor that has the reference's
\* subjectId and a rating and a price that would otherwise qualify
C17_Witness ==
    /\ Compared
    /\ \E i \in 1..Len(outcome.value.all_products) :
         LET p == outcome.value.all_products[i] IN
           /\ p.price * 10 < call.product.price
           /\ p.subjectId = call.product.subjectId
           /\ p.rating >= call.product.rating
           /\ p.id # call.product.id

\* the identities of the pool are those of the two searches, each once, in
\* the order of their first occurrence
PoolIdentities ==
    LET both == call.cheap_products \o call.expensive_products
        pool == outcome.value.all_products
    IN  /\ {pool[k].id : k \in 1..Len(pool)} = {both[i].id : i \in 1..Len(both)}
        /\ \A k \in 1..Len(pool) : \A m \in 1..Len(pool) : pool[k].id = pool[m].id => k = m

\* the record the pool holds for an identity is its first / last occurrence
PoolKeeps(which) ==
    LET both == call.cheap_products \o call.expensive_products
        pool == outcome.value.all_products
    IN  \A k \in 1..Len(pool) : \E i \in 1..Len(both) :
            /\ both[i] = pool[k]
            /\ IF which = "first"
               THEN \A j \in 1..(i - 1) : both[j].id # pool[k].id
               ELSE \A j \in (i + 1)..Len(both) : both[j].id # pool[k].id

---------------------------------------------------------------------------
(* The decoder's claims *)

Decoded == call.fn = "_parse_products" /\ outcome.state # "pending"

\* the ids of the items of the response that have one, in page order
IdsOnPage ==
    LET items == IF call.data.shape \in {"products", "data.products"}
                 THEN call.data.items ELSE <<>>
        at == {i \in 1..Len(items) : items[i].id # 0}
    IN  [k \in 1..Cardinality(at) |-> items[Nth(at, k)].id]

\* C19: decoding never raises, whatever the response holds: an item with a
\* missing or unexpected field is skipped or gets its fallback value
C19_NeverRaises == Decoded => outcome.state = "returned"

\* C20: every decoded Product carries an id, and the decoded sequence holds
\* exactly the items of the page that have an id, in page order
C20_IdsKept ==
    (Decoded /\ outcome.state = "returned") =>
        /\ \A k \in 1..Len(outcome.value) : outcome.value[k].id # 0
        /\ [k \in 1..Len(outcome.value) |-> outcome.value[k].id] = IdsOnPage

\* an item without id stood next to an item that has one
C20_Witness ==
    /\ Decoded
    /\ outcome.state = "returned"
    /\ Len(outcome.value) > 0
    /\ \E i \in 1..Len(call.data.items) : call.data.items[i].id = 0

---------------------------------------------------------------------------
(* The claims on productByLink *)

LinkDone == call.fn = "get_product_by_link" /\ outcome.state # "pending"

\* the first record of the cache entry the call started with has no root
CachedWithoutRoot(entry) == entry.present /\ entry.data[1]["root"] = 0
CachedWithRoot(entry) == entry.present /\ entry.data[1]["root"] # 0

\* C11: a cache store error never makes the operation fail: with the store
\* answering its commands with errors, a productByLink on a valid link whose
\* product the upstream holds still returns that product
C11_StoreErrorHarmless ==
    (LinkDone /\ store_fault # {} /\ call.link_ok /\ call.upstream = "product") =>
        (outcome.state = "returned" /\ outcome.value = <<LinkProduct(7)>>)

\* C12: productByLink on a link whose cached record has no root deletes the
\* cache entry and issues exactly one upstream detail request; a cached
\* record with a root is returned with no upstream request
C12_Eviction ==
    [][(call.fn = "get_product_by_link" /\ outcome.state = "pending" /\ store_fault = {}
           /\ call.link_ok /\ outcome'.state # "pending") =>
          /\ CachedWithoutRoot(cache) =>
                 (requests' = 1 /\ cache' # cache)
          /\ CachedWithRoot(cache) =>
                 (requests' = 0 /\ outcome'.state = "returned"
                    /\ outcome'.value = <<LinkProduct(7)>>)]_vars

---------------------------------------------------------------------------
(* The claims on feedbacks and on the lookups *)

FeedbacksDone == call.fn = "get_feedbacks" /\ outcome.state # "pending"

\* the product lookup of the call has what it needs to succeed
LookupCanSucceed == call.link_ok /\ (call.upstream = "product" \/ CachedWithRoot(cache))

\* number of feedbacks the upstream holds on pages 1..p
RECURSIVE HeldUpTo(_)
HeldUpTo(p) ==
    IF p = 0 THEN 0
    ELSE (IF p <= Len(call.fb_pages) THEN call.fb_pages[p] ELSE call.fb_tail)
         + (CHOOSE n \in {HeldUpTo(p - 1)} : TRUE)

\* the page at which the claim lets the loop stop: the first page that is
\* empty, or with which the feedbacks held reach the declared count, or 100
StopPage ==
    CHOOSE p \in 1..100 :
        /\ HeldUpTo(p) = HeldUpTo(p - 1) \/ HeldUpTo(p) >= call.fb_count \/ p = 100
        /\ \A q \in 1..(p - 1) :
               ~(HeldUpTo(q) = HeldUpTo(q - 1) \/ HeldUpTo(q) >= call.fb_count)

\* C21: feedbacks requests the pages 1, 2, 3, ... and stops exactly at the
\* first page that is empty or completes the declared count, or at page 100:
\* it requests StopPage pages, never more than 100
C21_StopsAtStopPage ==
    (FeedbacksDone /\ LookupCanSucceed /\ call.fb_fail = 0) =>
        (outcome.state = "returned" /\ outcome.pages = StopPage /\ outcome.pages <= 100)

\* C22: a failure of the request for one feedback page does not abort
\* feedbacks: it returns the feedbacks of the pages fetched before
C22_PageFailureLocal ==
    (FeedbacksDone /\ LookupCanSucceed /\ call.fb_fail # 0) =>
        /\ outcome.state = "returned"
        /\ Len(outcome.value[1]) = HeldUpTo(Min(call.fb_fail, StopPage) - 1)

LookupDone ==
    /\ call.fn \in {"get_product_by_link", "get_supplier_ids_by_brand_url"}
    /\ outcome.state # "pending"

Malformed ==
    IF call.fn = "get_product_by_link" THEN ~call.link_ok ELSE ~call.url_ok

\* C23: a lookup with a malformed link or URL fails with the input error,
\* and no upstream request is issued
C23_MalformedInput ==
    (LookupDone /\ Malformed) =>
        /\ outcome.state = "raised"
        /\ outcome.exc = "ParserError"
        /\ outcome.msg \in {"Invalid product link", "Invalid brand URL"}
        /\ requests = 0

\* the upstream answers the lookup, but with no usable record
NoUsableRecord ==
    IF call.fn = "get_product_by_link"
    THEN call.link_ok /\ ~cache.present /\ call.upstream \in {"no_product", "no_root"}
    ELSE call.url_ok /\ call.upstream = "no_ids"

\* how the same lookup ends when its upstream request fails in the way t
TransientOutcome(t) ==
    IF call.fn = "get_product_by_link"
    THEN get_product_by_link([call EXCEPT !.upstream = t])
    ELSE get_supplier_ids_by_brand_url(call.url_ok, t)

\* C24: a lookup that the upstream answers with no usable record ends in an
\* outcome of another kind than the one a transient upstream failure gives
C24_NotFoundDistinct ==
    (LookupDone /\ NoUsableRecord) =>
        \A t \in {"http_error", "network_error"} :
            <<outcome.state, outcome.exc>> # <<TransientOutcome(t).state, TransientOutcome(t).exc>>


PriceRangeDone == call.fn = "price_range" /\ outcome.state = "returned" /\ call.prices # <<>>

RECURSIVE SumCounts(_, _)
SumCounts(f, S) ==
    IF S = {} THEN 0
    ELSE LET k == CHOOSE k \in S : TRUE IN f[k] + SumCounts(f, S \ {k})

\* the buckets [i * w, (i + 1) * w) of width w = span / Buckets that hold the price
BucketsHolding(price, span) ==
    {i \in 0..(Buckets - 1) : i * span <= Buckets * price /\ Buckets * price < (i + 1) * span}

\* C25: for a non-empty list of non-negative prices the histogram has 5
\* buckets, bucket i being [i*w, (i+1)*w) for w = (max + 100) / 5, so the
\* first starts at 0 and the last ends at max + 100; every price lies in
\* exactly one of them and is counted under its key, and the counts sum to
\* the number of products.
C25_Histogram ==
    PriceRangeDone =>
        LET d == outcome.price_distribution[1]
            span == outcome.max_price + Margin
        IN  /\ Len(outcome.price_distribution) = 1
            /\ Cardinality(DOMAIN d) = Buckets
            /\ \A j \in DOMAIN call.prices :
                   Cardinality(BucketsHolding(call.prices[j], span)) = 1
            /\ \A i \in 0..(Buckets - 1) :
                   d[bucket_key(i, span)] =
                       Cardinality({j \in DOMAIN call.prices :
                                       i \in BucketsHolding(call.prices[j], span)})
            /\ SumCounts(d, DOMAIN d) = outcome.total_products
            /\ outcome.total_products = Len(call.prices)

\* three products, one at price 0, one on the bound of two buckets (counted in
\* the upper one), one at the maximum
C25_Witness ==
    /\ PriceRangeDone
    /\ Len(call.prices) = 3
    /\ \E j \in DOMAIN call.prices : call.prices[j] = 0
    /\ \E j \in DOMAIN call.prices : call.prices[j] = 4000
    /\ outcome.max_price = 10000
    /\ outcome.price_distribution[1][<<40, 80>>] = 1


\* page tasks that were created and have not finished
Unfinished == {p \in DOMAIN task : task[p] \in {"sem", "run", "backoff"}}

\* C26: at any moment every page task that has not finished belongs to the
\* current batch, and within an invocation the batch only changes to a batch
\* of higher page numbers, at a moment when no page task is left unfinished.
C26_OneBatchAtATime ==
    [][/\ Unfinished' \subseteq (BatchPages(batch_start))'
       /\ (batch_start' # batch_start /\ pc # "done")
              => (batch_start' > batch_start /\ Unfinished = {})]_vars

\* a page of the second batch is in flight, the tasks of the first have finished
C26_Witness ==
    /\ batch_start = BatchStep + 1
    /\ task[batch_start] = "run"
    /\ \A p \in BatchPages(1) : task[p] = "done"


\* the invocation returns in this step
Returns == pc # "done" /\ pc' = "done"

\* C27: an invocation that found no entry under its key writes the cache in
\* the step it returns in and in no other, and the list written is the list
\* returned; an invocation that found an entry leaves the cache as it is.
C27_WriteOnMiss ==
    [][/\ (Returns /\ ~warm') => (cache'.present /\ json_loads(cache'.data) = ret')
       /\ ~Returns => cache' = cache
       /\ warm' => cache' = cache]_vars


\* pages an upstream request has been issued for in this invocation
Requested == {p \in DOMAIN attempt : attempt[p] > 0}

\* C28: the page tasks of a batch, and so the pages requested, are numbered
\* within 1..min(pages, ceiling); in search mode no page is requested more
\* than once in an invocation; an invocation with pages <= 0 requests no
\* page and returns the empty list.
C28_PagesInRange ==
    /\ batch_start > 0 => BatchPages(batch_start) \subseteq 1..Min(pages, SettingsMaxPages)
    /\ Requested \subseteq 1..Min(pages, SettingsMaxPages)
    /\ \A p \in Requested : p \in BatchPages(BatchStartOf(p))
    /\ mode = "search" => \A p \in Requested : attempt[p] = 1
    /\ pages <= 0 => (Requested = {} /\ batch_start = 0 /\ (pc = "done" => ret = <<>>))

\* a search over two pages or more has returned after requesting each page once
C28_Witness ==
    /\ mode = "search"
    /\ pc = "done"
    /\ pages >= 2
    /\ Requested = 1..pages

\* an invocation with pages = 0 has returned
C28_WitnessNoPages == pages = 0 /\ pc = "done" /\ run = 1 /\ cache.present


\* C29: two queries that differ in the operation or in a parameter derive
\* different key strings.
C29_KeysInjective ==
    (call.fn = "cache_key" /\ outcome.state = "returned" /\ call.first # call.second)
        => outcome.first # outcome.second


\* a call of productByLink ends in this step
LinkEnds == call.fn = "get_product_by_link" /\ outcome.state = "pending"
                /\ outcome'.state # "pending"

\* C30: a productByLink that writes a cache entry writes exactly one product,
\* with a root, and a productByLink that returns returns a product with a root.
C30_RootedOnly ==
    [][LinkEnds =>
          /\ (cache'.present /\ cache' # cache) =>
                 (Len(cache'.data) = 1 /\ CachedWithRoot(cache'))
          /\ outcome'.state = "returned" =>
                 (Len(outcome'.value) = 1 /\ outcome'.value[1].root # 0)]_vars

\* a productByLink has fetched a product, written it and returned it
C30_Witness ==
    /\ LinkDone
    /\ outcome.state = "returned"
    /\ requests = 1
    /\ CachedWithRoot(cache)

====
